---- MODULE Spec2Model ----
(***************************************************************************)
(* Click counter in MVC with an Observer relay                             *)
(* (src/contador_cliques_mvc.py): ClickCounterModel, ClickCounterView and  *)
(* ClickCounterController.  Everything runs on the single Tk event-loop    *)
(* thread, so every public operation is one atomic action; the             *)
(* notification loop of a mutator is folded into the mutator's action.     *)
(***************************************************************************)
EXTENDS Integers, Sequences, FiniteSets, TLC

\* ---------------------------------------------------------------- bounds
MaxCount == 10     \* increment() is not taken beyond this count
MaxObs == 3        \* add_observer() is not taken beyond this list length

\* ------------------------------------------------------------- the objects
None == "None"
Ctrl == "controller"          \* the ClickCounterController instance
O1 == "obs1"                  \* an instance of another Observer subclass
Duck == "duck"                \* has update(), does not derive from Observer
Plain == "plain"              \* has no update()

Objects == {Ctrl, O1, Duck, Plain}

\* What each object is: its class derives from Observer / it has update().
ObjectKind ==
    [o \in Objects |->
        [isObserver |-> o \in {Ctrl, O1},
         hasUpdate |-> o \in {Ctrl, O1, Duck}]]

\* the callables that may be stored in the view's slots
OnClick == "_on_click"        \* bound method controller._on_click
OnReset == "_on_reset"        \* bound method controller._on_reset
Noop == "noop"                \* some other zero-argument function

Blue == "#0066cc"
Grey == "#999999"

VARIABLES
    count,            \* model._count
    observers,        \* model._observers
    click_listener,   \* view._click_listener
    reset_listener,   \* view._reset_listener
    count_display,    \* text of view.count_display, a sequence of characters
    foreground,       \* foreground colour of view.count_display
    controller,       \* TRUE once ClickCounterController.__init__ has run
    last,             \* record of the most recent operation (history)
    hist              \* history across operations

vars == <<count, observers, click_listener, reset_listener, count_display,
          foreground, controller, last, hist>>

\* ------------------------------------------------------------ pure helpers
Range(s) == {s[i] : i \in DOMAIN s}

Occurrences(x, s) == Cardinality({i \in DOMAIN s : s[i] = x})

Who(calls) == [i \in DOMAIN calls |-> calls[i].who]

Digit(d) == <<"0", "1", "2", "3", "4", "5", "6", "7", "8", "9">>[d + 1]

\* str(n) of a Python int: the decimal digits, most significant first
RECURSIVE Str(_)
Str(n) ==
    IF n < 0 THEN <<"-">> \o Str(-n)
    ELSE IF n < 10 THEN <<Digit(n)>>
    ELSE Str(n \div 10) \o <<Digit(n % 10)>>

\* the number a readout shows, read back digit by digit
DigitValue(ch) == CHOOSE d \in 0..9 : Digit(d) = ch

RECURSIVE ParseInt(_)
ParseInt(s) ==
    IF s = <<>> THEN 0
    ELSE 10 * ParseInt(SubSeq(s, 1, Len(s) - 1)) + DigitValue(s[Len(s)])

\* ------------------------------------------------------------------ model
\* ClickCounterModel.get_count(), read between operations
GetCount == count

IncrementCount_Twice(c) == c + 2

\* self._count += 1
IncrementCount(c) == c + 1

\* self._count = 0
ResetCount == 0

HasUpdateCapability(x) == ObjectKind[x].hasUpdate

\* isinstance(observer, Observer)
IsObserverInstance(x) == ObjectKind[x].isObserver

RECURSIVE RemoveAll(_, _)
RemoveAll(s, x) ==
    IF s = <<>> THEN <<>>
    ELSE IF Head(s) = x THEN RemoveAll(Tail(s), x)
    ELSE <<Head(s)>> \o RemoveAll(Tail(s), x)

RemoveNone(s, x) == s

\* if observer in self._observers: self._observers.remove(observer)
\* list.remove scans from the head and deletes the first equal entry
RECURSIVE RemoveFirst(_, _)
RemoveFirst(s, x) ==
    IF s = <<>> THEN <<>>
    ELSE IF Head(s) = x THEN Tail(s)
    ELSE <<Head(s)>> \o RemoveFirst(Tail(s), x)

\* ------------------------------------------------------------------- view
UpdateDisplay_ColourOnly(c, view) ==
    [text |-> view.text, fg |-> IF c > 0 THEN Blue ELSE Grey]

\* ClickCounterView.update_display(count)
UpdateDisplay(c, view) ==
    [text |-> Str(c), fg |-> IF c > 0 THEN Blue ELSE Grey]

StoreListener_KeepFirst(old, callback) == IF old = None THEN callback ELSE old

\* self._click_listener = callback / self._reset_listener = callback
StoreListener(old, callback) == callback

\* if self._click_listener: ...   (None is falsy, a function is truthy)
Truthy(callback) == callback # None

\* the callbacks a press invokes, in order
OnPressed(listener) == IF Truthy(listener) THEN <<listener>> ELSE <<>>

\* ------------------------------------------------------------- controller
ControllerHandler_Swapped(callback) ==
    IF callback = OnClick THEN "reset"
    ELSE IF callback = OnReset THEN "increment"
    ELSE "none"

\* _on_click calls model.increment(), _on_reset calls model.reset()
ControllerHandler(callback) ==
    IF callback = OnClick THEN "increment"
    ELSE IF callback = OnReset THEN "reset"
    ELSE "none"

\* observer.update(): the controller reads model.get_count() and pushes it
\* to the view; another Observer's update() touches neither model nor view
ObserverUpdate(o, c, view) ==
    IF o = Ctrl THEN UpdateDisplay(c, view) ELSE view

\* for observer in self._observers: observer.update()
\* Each call is logged with what the callee can read when it is called: the
\* model's count and the readout's text.
RECURSIVE NotifyFrom(_, _, _, _)
NotifyFrom(obs, c, view, calls) ==
    IF obs = <<>> THEN [view |-> view, calls |-> calls]
    ELSE NotifyFrom(Tail(obs), c, ObserverUpdate(Head(obs), c, view),
                    Append(calls, [who |-> Head(obs), count |-> c,
                                   shown |-> view.text]))

RECURSIVE Distinct(_)
Distinct(s) ==
    IF s = <<>> THEN <<>>
    ELSE <<Head(s)>> \o Distinct(RemoveAll(Tail(s), Head(s)))

NotifyObservers_Distinct(obs, c, view) == NotifyFrom(Distinct(obs), c, view, <<>>)

NotifyObservers(obs, c, view) == NotifyFrom(obs, c, view, <<>>)

\* ------------------------------------------------------- history records
RegObjs == {o \in Objects : ObjectKind[o].isObserver}

\* the record of an operation: what was called, with what, what it did
\* (which mutator ran, whether it raised, the update() calls it made, the
\* callbacks the view invoked) and the state it started from
Op(op, arg, mut, raised, calls, invoked) ==
    [op |-> op, arg |-> arg, mutator |-> mut, raised |-> raised,
     calls |-> calls, invoked |-> invoked,
     preCount |-> count, preObservers |-> observers,
     preText |-> count_display]

IsPress(op) == op \in {"click_pressed", "reset_pressed"}

\* history across operations:
\*   incs          increment() calls since the last reset() (or since start)
\*   removedAt[s]  entries of s in the list when remove_observer(s) was last
\*                 called, -1 if never or if s was registered again since
\*   mainRun       the run so far is main(): construct the controller
\*                 first, then only button presses
\*   detached      a remove_observer left the controller unregistered
\*   setClick, setReset   the callback most recently passed to
\*                 set_click_listener / set_reset_listener
HistInit ==
    [incs |-> 0, removedAt |-> [o \in RegObjs |-> -1], mainRun |-> TRUE,
     detached |-> FALSE, setClick |-> None, setReset |-> None]

\* ------------------------------------------------------------------- Init
\* main() lines 233-234: the model and the view are constructed
Init ==
    /\ count = 0
    /\ observers = <<>>
    /\ click_listener = None
    /\ reset_listener = None
    /\ count_display = <<"0">>
    /\ foreground = Blue
    /\ controller = FALSE
    /\ last = [op |-> "init", arg |-> None, mutator |-> "none",
               raised |-> FALSE, calls |-> <<>>, invoked |-> <<>>,
               preCount |-> 0, preObservers |-> <<>>, preText |-> <<"0">>]
    /\ hist = HistInit

\* ---------------------------------------------------------- model actions
\* the body shared by increment() and reset(): assign, then notify
SetCountAndNotify(newCount, mut, op, invoked) ==
    LET r == NotifyObservers(observers, newCount,
                             [text |-> count_display, fg |-> foreground])
    IN /\ count' = newCount
       /\ count_display' = r.view.text
       /\ foreground' = r.view.fg
       /\ last' = Op(op, None, mut, FALSE, r.calls, invoked)
       /\ hist' = [hist EXCEPT
                     !.incs = IF mut = "increment" THEN @ + 1 ELSE 0,
                     !.mainRun = @ /\ controller /\ IsPress(op)]
       /\ UNCHANGED <<observers, click_listener, reset_listener, controller>>

\* ClickCounterModel.increment()
ModelIncrement(op, invoked) ==
    /\ count < MaxCount
    /\ SetCountAndNotify(IncrementCount(count), "increment", op, invoked)

ModelReset_Debounced(op, invoked) ==
    IF count = 0
    THEN /\ last' = Op(op, None, "reset", FALSE, <<>>, invoked)
         /\ hist' = [hist EXCEPT !.incs = 0,
                                 !.mainRun = @ /\ controller /\ IsPress(op)]
         /\ UNCHANGED <<count, observers, click_listener, reset_listener,
                        count_display, foreground, controller>>
    ELSE SetCountAndNotify(ResetCount, "reset", op, invoked)

\* ClickCounterModel.reset()
ModelReset(op, invoked) ==
    SetCountAndNotify(ResetCount, "reset", op, invoked)

\* a direct call of model.increment()
Increment == ModelIncrement("increment", <<>>)

\* a direct call of model.reset()
Reset == ModelReset("reset", <<>>)

\* the outcome of add_observer(x) on list obs
AddObserverResult(obs, x) ==
    IF ~IsObserverInstance(x)
    THEN [raised |-> TRUE, observers |-> obs]
    ELSE [raised |-> FALSE, observers |-> Append(obs, x)]

\* ClickCounterModel.add_observer(x), x any object at hand (the controller
\* only once it exists)
AddObserver ==
    \E x \in Objects :
        /\ x = Ctrl => controller
        /\ Len(observers) < MaxObs
        /\ LET r == AddObserverResult(observers, x)
           IN /\ observers' = r.observers
              /\ last' = Op("add_observer", x, "none", r.raised, <<>>, <<>>)
              /\ hist' = [hist EXCEPT
                            !.removedAt =
                                IF ~r.raised /\ x \in RegObjs
                                THEN [@ EXCEPT ![x] = -1] ELSE @,
                            !.mainRun = FALSE]
        /\ UNCHANGED <<count, click_listener, reset_listener, count_display,
                       foreground, controller>>

\* ClickCounterModel.remove_observer(x)
RemoveObserver ==
    \E x \in Objects :
        /\ x = Ctrl => controller
        /\ observers' = RemoveFirst(observers, x)
        /\ last' = Op("remove_observer", x, "none", FALSE, <<>>, <<>>)
        /\ hist' = [hist EXCEPT
                      !.removedAt =
                          IF x \in RegObjs
                          THEN [@ EXCEPT ![x] = Occurrences(x, observers)]
                          ELSE @,
                      !.detached = @ \/ (controller /\ x = Ctrl
                                         /\ Occurrences(Ctrl, observers) <= 1),
                      !.mainRun = FALSE]
        /\ UNCHANGED <<count, click_listener, reset_listener, count_display,
                       foreground, controller>>

\* ----------------------------------------------------------- view actions
\* the callbacks a caller can pass: None, a function, and the controller's
\* bound methods once the controller exists
Available == {None, Noop} \cup (IF controller THEN {OnClick, OnReset} ELSE {})

\* ClickCounterView.set_click_listener(callback)
SetClickListener ==
    \E cb \in Available :
        /\ click_listener' = StoreListener(click_listener, cb)
        /\ last' = Op("set_click_listener", cb, "none", FALSE, <<>>, <<>>)
        /\ hist' = [hist EXCEPT !.setClick = cb, !.mainRun = FALSE]
        /\ UNCHANGED <<count, observers, reset_listener, count_display,
                       foreground, controller>>

\* ClickCounterView.set_reset_listener(callback)
SetResetListener ==
    \E cb \in Available :
        /\ reset_listener' = StoreListener(reset_listener, cb)
        /\ last' = Op("set_reset_listener", cb, "none", FALSE, <<>>, <<>>)
        /\ hist' = [hist EXCEPT !.setReset = cb, !.mainRun = FALSE]
        /\ UNCHANGED <<count, observers, click_listener, count_display,
                       foreground, controller>>

\* a button's command: invoke the stored callback if there is one; the
\* callback is a controller handler (which calls its mutator) or a function
\* that leaves model and view alone
Pressed(op, listener) ==
    LET invoked == OnPressed(listener)
        mut == IF invoked = <<>> THEN "none" ELSE ControllerHandler(invoked[1])
    IN CASE mut = "increment" -> ModelIncrement(op, invoked)
         [] mut = "reset" -> ModelReset(op, invoked)
         [] OTHER ->
              /\ last' = Op(op, None, "none", FALSE, <<>>, invoked)
              /\ hist' = [hist EXCEPT !.mainRun = @ /\ controller]
              /\ UNCHANGED <<count, observers, click_listener, reset_listener,
                             count_display, foreground, controller>>

\* ClickCounterView._on_click_pressed()
OnClickPressed == Pressed("click_pressed", click_listener)

\* ClickCounterView._on_reset_pressed()
OnResetPressed == Pressed("reset_pressed", reset_listener)

\* ------------------------------------------------------ controller action
ControllerInit_NoPush ==
    /\ ~controller
    /\ Len(observers) < MaxObs
    /\ LET r == AddObserverResult(observers, Ctrl)
       IN /\ controller' = TRUE
          /\ click_listener' = StoreListener(click_listener, OnClick)
          /\ reset_listener' = StoreListener(reset_listener, OnReset)
          /\ observers' = r.observers
          /\ last' = Op("controller_init", None, "none", r.raised, <<>>, <<>>)
          /\ hist' = [hist EXCEPT !.setClick = OnClick, !.setReset = OnReset,
                                  !.mainRun = @ /\ last.op = "init"]
          /\ UNCHANGED <<count, count_display, foreground>>

\* ClickCounterController.__init__(model, view): set both listeners,
\* add_observer(self), then self.update() unless add_observer raised
ControllerInit ==
    /\ ~controller
    /\ Len(observers) < MaxObs
    /\ LET r == AddObserverResult(observers, Ctrl)
           view == [text |-> count_display, fg |-> foreground]
           shown == IF r.raised THEN view ELSE ObserverUpdate(Ctrl, count, view)
           calls == IF r.raised THEN <<>>
                    ELSE <<[who |-> Ctrl, count |-> count,
                            shown |-> count_display]>>
       IN /\ controller' = TRUE
          /\ click_listener' = StoreListener(click_listener, OnClick)
          /\ reset_listener' = StoreListener(reset_listener, OnReset)
          /\ observers' = r.observers
          /\ count_display' = shown.text
          /\ foreground' = shown.fg
          /\ last' = Op("controller_init", None, "none", r.raised, calls, <<>>)
          /\ hist' = [hist EXCEPT !.setClick = OnClick, !.setReset = OnReset,
                                  !.mainRun = @ /\ last.op = "init"]
          /\ UNCHANGED count

\* The application and its model: the controller is constructed at some
\* point, buttons are pressed, and the model's public operations are called.
\* The view's slots are written by the controller's constructor only.
Next ==
    \/ Increment
    \/ Reset
    \/ AddObserver
    \/ RemoveObserver
    \/ OnClickPressed
    \/ OnResetPressed
    \/ ControllerInit

Spec == Init /\ [][Next]_vars

\* The view's slots: any caller stores callbacks in them, before and after
\* the controller is constructed, and buttons are pressed.  The subscriber
\* list is written by the controller's constructor only.
NextView ==
    \/ SetClickListener
    \/ SetResetListener
    \/ OnClickPressed
    \/ OnResetPressed
    \/ ControllerInit
    \/ Increment
    \/ Reset

ViewSpec == Init /\ [][NextView]_vars

\* ================================================================= claims
Calls == last.calls

Mutated == last.mutator # "none"

FirstIndex(x, s) == CHOOSE i \in DOMAIN s : s[i] = x /\ \A j \in 1..(i - 1) : s[j] # x

Max(a, b) == IF a >= b THEN a ELSE b

\* C1: in every reachable state the count is non-negative and get_count()
\* equals the number of increment() calls made since the most recent reset()
\* (or since construction).
C1_CountIsIncrementsSinceReset ==
    /\ GetCount >= 0
    /\ GetCount = hist.incs

C1_Witness ==
    /\ last.op = "increment"
    /\ last.preCount = 2
    /\ GetCount = 3
    /\ hist.incs = 3
    /\ controller

\* C2 as stated: after a mutator, every registered subscriber's update() has
\* been invoked exactly once, in registration order.
C2_EachSubscriberOnce ==
    Mutated =>
        /\ \A s \in Range(observers) : Occurrences(s, Who(Calls)) = 1
        /\ \A i, j \in DOMAIN Calls :
               i < j => FirstIndex(Calls[i].who, observers)
                          < FirstIndex(Calls[j].who, observers)

\* C2 amended: after a mutator, update() has been invoked once per entry of
\* the subscriber list, in list order (so a subscriber registered k times is
\* invoked k times), each invocation seeing the post-mutation count.
C2_OncePerEntryInOrder ==
    Mutated =>
        /\ Who(Calls) = observers
        /\ \A i \in DOMAIN Calls : Calls[i].count = GetCount

C2_Witness ==
    /\ last.op = "increment"
    /\ observers = <<O1, Ctrl, O1>>
    /\ Len(Calls) = 3

\* C3 as stated: once remove_observer(s) has returned and s is not
\* registered again, no later mutator invokes s.update().
C3_RemovedNeverNotified ==
    \A s \in RegObjs :
        (hist.removedAt[s] >= 0 /\ Mutated) => s \notin Range(Who(Calls))

\* C3 amended: once remove_observer(s) has returned and s is not registered
\* again, a later mutator invokes s.update() once per entry of s that the
\* removal left: never if s was registered at most once when it was removed,
\* k - 1 times if it was registered k times.
C3_RemovedNotifiedPerRemainingEntry ==
    \A s \in RegObjs :
        (hist.removedAt[s] >= 0 /\ Mutated) =>
            Occurrences(s, Who(Calls)) = Max(hist.removedAt[s] - 1, 0)

C3_Witness ==
    /\ hist.removedAt[O1] = 1
    /\ last.op = "increment"
    /\ Who(Calls) = <<Ctrl>>

\* C4 as stated: once the controller is constructed the readout always
\* equals the decimal string of get_count(), and no subscriber is ever
\* notified while the readout is stale.
C4_ReadoutNeverStale ==
    controller =>
        /\ count_display = Str(GetCount)
        /\ \A i \in DOMAIN Calls :
               Calls[i].who # Ctrl => Calls[i].shown = Str(Calls[i].count)

\* C4 amended: once the controller is constructed, and as long as no
\* remove_observer has left it unregistered, the readout between operations
\* equals the decimal string of get_count(); within a notification cycle a
\* subscriber notified after the controller reads a fresh readout (one
\* notified before the controller reads the previous one).
C4_ReadoutFreshWhileRegistered ==
    /\ (controller /\ ~hist.detached) =>
           /\ count_display = Str(GetCount)
           /\ ParseInt(count_display) = GetCount
    /\ \A i \in DOMAIN Calls :
           (\E j \in 1..(i - 1) : Calls[j].who = Ctrl) =>
               ParseInt(Calls[i].shown) = Calls[i].count

C4_Witness ==
    /\ controller
    /\ ~hist.detached
    /\ last.op = "click_pressed"
    /\ GetCount = 10
    /\ observers = <<O1, Ctrl, O1>>

\* C5 as stated: add_observer(x) appends x whenever x has an update()
\* method and raises TypeError exactly when it has none; on failure nothing
\* changes and nobody is notified.
C5_AddFailsIffNoUpdate ==
    last.op = "add_observer" =>
        /\ last.raised <=> ~ObjectKind[last.arg].hasUpdate
        /\ ~last.raised => observers = Append(last.preObservers, last.arg)
        /\ last.raised => observers = last.preObservers
        /\ GetCount = last.preCount
        /\ Calls = <<>>

\* C5 amended: add_observer(x) appends x whenever x is an instance of a
\* class derived from Observer and raises TypeError exactly when it is not
\* (an object that has update() without deriving from Observer is refused);
\* on failure list, count and readout are unchanged and nobody is notified.
C5_AddFailsIffNotObserverInstance ==
    last.op = "add_observer" =>
        /\ last.raised <=> ~ObjectKind[last.arg].isObserver
        /\ ~last.raised => observers = Append(last.preObservers, last.arg)
        /\ last.raised => observers = last.preObservers
        /\ GetCount = last.preCount
        /\ count_display = last.preText
        /\ Calls = <<>>

C5_Witness ==
    /\ last.op = "add_observer"
    /\ last.arg = Duck
    /\ last.raised
    /\ observers = <<O1, Ctrl>>

\* C6: reset() on a zero count leaves it zero and still notifies every
\* registered subscriber in one cycle; after any reset() the count is zero,
\* so a second reset() in a row leaves what the first left.
C6_ResetIdempotentStillNotifies ==
    /\ (last.mutator = "reset" /\ last.preCount = 0) =>
           /\ GetCount = 0
           /\ observers = last.preObservers
           /\ Who(Calls) = last.preObservers
    /\ last.mutator = "reset" => GetCount = 0

C6_Witness ==
    /\ last.op = "reset"
    /\ last.preCount = 0
    /\ GetCount = 0
    /\ Who(Calls) = <<O1, Ctrl>>

\* C7: remove_observer(s) never raises; with s absent it changes nothing;
\* with s present it deletes the first entry equal to s and only that one,
\* keeping the others in order; it never changes the count or the readout
\* and notifies nobody.
C7_RemoveFirstOnly ==
    last.op = "remove_observer" =>
        LET pre == last.preObservers
            s == last.arg
        IN /\ ~last.raised
           /\ GetCount = last.preCount
           /\ count_display = last.preText
           /\ Calls = <<>>
           /\ s \notin Range(pre) => observers = pre
           /\ s \in Range(pre) =>
                  \E i \in DOMAIN pre :
                      /\ pre[i] = s
                      /\ \A j \in 1..(i - 1) : pre[j] # s
                      /\ observers = SubSeq(pre, 1, i - 1)
                                       \o SubSeq(pre, i + 1, Len(pre))

C7_Witness ==
    /\ last.op = "remove_observer"
    /\ last.arg = O1
    /\ last.preObservers = <<Ctrl, O1, O1>>
    /\ observers = <<Ctrl, O1>>

C9_ConstructionSynchronises ==
    last.op = "controller_init" =>
        /\ ~last.raised
        /\ GetCount = last.preCount
        /\ click_listener = OnClick
        /\ reset_listener = OnReset
        /\ observers = Append(last.preObservers, Ctrl)
        /\ Occurrences(Ctrl, observers) = 1
        /\ Who(Calls) = <<Ctrl>>
        /\ ParseInt(count_display) = last.preCount

C9_Witness ==
    /\ last.op = "controller_init"
    /\ last.preCount = 10
    /\ last.preObservers = <<O1, O1>>
    /\ last.preText = <<"0">>

\* C10: in a run of main() (controller constructed first, then button
\* presses only) a click press invokes the controller's click handler, which
\* runs increment() once: the count goes up by one before the controller's
\* update() is called, and the readout goes up by exactly one; a reset press
\* runs reset() once and the readout shows 0.
C10_PressChain ==
    /\ (hist.mainRun /\ last.op = "click_pressed") =>
           /\ last.invoked = <<OnClick>>
           /\ last.mutator = "increment"
           /\ GetCount = last.preCount + 1
           /\ Calls = <<[who |-> Ctrl, count |-> last.preCount + 1,
                         shown |-> last.preText]>>
           /\ ParseInt(count_display) = ParseInt(last.preText) + 1
           /\ ParseInt(count_display) = GetCount
    /\ (hist.mainRun /\ last.op = "reset_pressed") =>
           /\ last.invoked = <<OnReset>>
           /\ last.mutator = "reset"
           /\ GetCount = 0
           /\ Calls = <<[who |-> Ctrl, count |-> 0, shown |-> last.preText]>>
           /\ count_display = <<"0">>

C10_Witness ==
    /\ hist.mainRun
    /\ last.op = "click_pressed"
    /\ last.preText = <<"9">>
    /\ count_display = <<"1", "0">>

====
